---- MODULE Spec2Model ----
(***************************************************************************)
(* Model of the FGP Gmail daemon (src/src/main.rs): GmailService, its      *)
(* method table, parameter handling, the spawn-per-call run_cli helper,    *)
(* and the daemon's startup sequence.                                      *)
(***************************************************************************)
EXTENDS Integers, Sequences, FiniteSets, TLC

VARIABLES
    phase,       \* position of main: "boot", "constructed", "serving", "failed"
    fs,          \* the script paths that exist on disk (Path::exists)
    service,     \* the GmailService value: [cli_path |-> path], or NoService
    calls,       \* per connection: the dispatch call it is running
    procs,       \* spawned python3 processes still running: pid -> [owner, argv]
    dispatches,  \* number of dispatch calls entered
    spawns,      \* number of python3 processes spawned by run_cli
    startup,     \* what the startup checks found: [script, python]
    last,        \* the most recent call of the service, run to completion
    listed       \* the value returned by the most recent method_list call

vars == <<phase, fs, service, calls, procs, dispatches, spawns, startup, last,
          listed>>

----------------------------------------------------------------------------
(* serde_json::Value, as a tagged record.  t is the variant; s carries a   *)
(* string's text (or a float's literal), n an integer's value, f an        *)
(* object's members.                                                       *)

NoFields == [k \in {} |-> 0]

JNull == [t |-> "null", s |-> "", n |-> 0, f |-> NoFields]
JBool(b) == [t |-> "bool", s |-> "", n |-> IF b THEN 1 ELSE 0, f |-> NoFields]
JInt(i) == [t |-> "int", s |-> "", n |-> i, f |-> NoFields]
JFloat(lit) == [t |-> "float", s |-> lit, n |-> 0, f |-> NoFields]
JStr(x) == [t |-> "string", s |-> x, n |-> 0, f |-> NoFields]
JArray == [t |-> "array", s |-> "", n |-> 0, f |-> NoFields]
JObject(members) == [t |-> "object", s |-> "", n |-> 0, f |-> members]

(* Option<T>: None is the empty sequence, Some(x) is <<x>>. *)
None == <<>>
Some(x) == <<x>>
unwrap_or(o, d) == IF o = None THEN d ELSE o[1]

(* HashMap::get *)
get(params, key) == IF key \in DOMAIN params THEN Some(params[key]) ELSE None

(* A variant of as_str that takes the text of any non-null value. *)
as_str_lenient(v) == IF v.t = "null" THEN None ELSE Some(v.s)

(* Value::as_str: Some only for the String variant. *)
as_str(v) == IF v.t = "string" THEN Some(v.s) ELSE None

(* Value::as_u64: Some only for a number stored as a non-negative integer; *)
(* negative integers and floats give None.                                 *)
as_u64(v) == IF v.t = "int" /\ v.n >= 0 THEN Some(v.n) ELSE None

(* Option::and_then with each of the two closures the service passes. *)
and_then_as_str(o) == IF o = None THEN None ELSE as_str(o[1])
and_then_as_u64(o) == IF o = None THEN None ELSE as_u64(o[1])

(* Value::get(key) on a parsed document: None unless it is an object with  *)
(* that member.                                                            *)
value_get(v, key) ==
    IF v.t = "object" /\ key \in DOMAIN v.f THEN Some(v.f[key]) ELSE None

(* u64::to_string: decimal digits, most significant first.  (The values   *)
(* of the model stay far below 2^64, so as_u64 never rejects for size.)    *)
Digit(d) ==
    CASE d = 0 -> "0" [] d = 1 -> "1" [] d = 2 -> "2" [] d = 3 -> "3"
      [] d = 4 -> "4" [] d = 5 -> "5" [] d = 6 -> "6" [] d = 7 -> "7"
      [] d = 8 -> "8" [] d = 9 -> "9"

RECURSIVE to_string(_)
to_string(n) ==
    IF n < 10 THEN Digit(n) ELSE to_string(n \div 10) \o Digit(n % 10)

(* anyhow::Result<Value>.  msg is the error's message (the outermost       *)
(* context), cause the error it wraps, "" when it wraps none.              *)
Ok(v) == [ok |-> TRUE, val |-> v, msg |-> "", cause |-> ""]
Err(m, c) == [ok |-> FALSE, val |-> JNull, msg |-> m, cause |-> c]

----------------------------------------------------------------------------
(* The outside world one dispatch call can meet.                           *)

(* What the helper process wrote to standard output. *)
OkText == "{\"ok\":true}"
BoomText == "{\"error\":\"boom\"}"
CodeText == "{\"error\":403}"
ListText == "[]"
JunkText == "Traceback (most recent call last)"
EmptyText == ""

StdoutTexts == {OkText, BoomText, CodeText, ListText, JunkText, EmptyText}

(* serde_json::from_slice::<Value> on those texts: None is a parse error. *)
from_slice(text) ==
    CASE text = OkText -> Some(JObject([k \in {"ok"} |-> JBool(TRUE)]))
      [] text = BoomText -> Some(JObject([k \in {"error"} |-> JStr("boom")]))
      [] text = CodeText -> Some(JObject([k \in {"error"} |-> JInt(403)]))
      [] text = ListText -> Some(JArray)
      [] OTHER -> None

(* The text of serde_json's error for the texts that do not parse. *)
from_slice_error(text) ==
    IF text = EmptyText THEN "EOF while parsing a value at line 1 column 0"
    ELSE "expected value at line 1 column 1"

(* The result of Command::output(): the process could not be started       *)
(* (io carries the OS error), or it ran and exited with a status.          *)
NotStarted == [started |-> FALSE, code |-> 0, stdout |-> "", stderr |-> "",
               io |-> "No such file or directory (os error 2)"]
Exited(code, out, err) ==
    [started |-> TRUE, code |-> code, stdout |-> out, stderr |-> err, io |-> ""]

ExitCodes == {0, 1}

(* Standard error is bytes; BadUtf8 stands for "caf" followed by the byte  *)
(* 0xFF, which is not valid UTF-8.                                         *)
BadUtf8 == "caf<FF>"
StderrTexts == {"token expired", BadUtf8}

(* String::from_utf8_lossy: invalid bytes become U+FFFD. *)
from_utf8_lossy(bytes) == IF bytes = BadUtf8 THEN "caf<U+FFFD>" ELSE bytes
Exits ==
    {Exited(c, o, e) : c \in ExitCodes, o \in StdoutTexts, e \in StderrTexts}
Outputs == {NotStarted} \cup Exits

----------------------------------------------------------------------------
(* gmail_cli_path: the first candidate that exists, else the cargo path.   *)

ExeScript == "<exe_dir>/gmail-cli.py"
ExeScriptsScript == "<exe_dir>/scripts/gmail-cli.py"
HomeScript == "<home>/.fgp/services/gmail/gmail-cli.py"
CargoScript == "<CARGO_MANIFEST_DIR>/scripts/gmail-cli.py"
ScriptPaths == {ExeScript, ExeScriptsScript, HomeScript, CargoScript}

gmail_cli_path(files) ==
    IF ExeScript \in files THEN ExeScript
    ELSE IF ExeScriptsScript \in files THEN ExeScriptsScript
    ELSE IF HomeScript \in files THEN HomeScript
    ELSE CargoScript

NoService == [cli_path |-> ""]

(* GmailService::new: fails when the chosen path does not exist. *)
new(files) ==
    LET cli_path == gmail_cli_path(files) IN
    IF cli_path \notin files
    THEN [ok |-> FALSE, svc |-> NoService,
          msg |-> "Gmail CLI not found at: " \o cli_path
                    \o "\nEnsure gmail-cli.py is installed."]
    ELSE [ok |-> TRUE, svc |-> [cli_path |-> cli_path], msg |-> ""]

----------------------------------------------------------------------------
(* What one call of a service method did: its result, and the command      *)
(* line of every process it spawned, in order.                             *)

Ran(res, spawned) == [res |-> res, spawned |-> spawned]

(* A variant of run_cli that reads standard output without looking at the *)
(* exit status.                                                            *)
run_cli_ignores_status(self, args, out) ==
    LET argv == <<"python3", self.cli_path>> \o args IN
    IF ~out.started
    THEN Ran(Err("Failed to run gmail-cli.py", out.io), <<argv>>)
    ELSE LET parsed == from_slice(out.stdout) IN
         IF parsed = None
         THEN Ran(Err("Failed to parse gmail-cli output",
                      from_slice_error(out.stdout)), <<argv>>)
         ELSE Ran(Ok(parsed[1]), <<argv>>)

(* GmailService::run_cli.  out is what Command::output() returns for the   *)
(* one process this call spawns.                                           *)
run_cli(self, args, out) ==
    LET argv == <<"python3", self.cli_path>> \o args IN
    IF ~out.started
    THEN Ran(Err("Failed to run gmail-cli.py", out.io), <<argv>>)
    ELSE IF out.code # 0
    THEN LET stderr == from_utf8_lossy(out.stderr)
             error_json == from_slice(out.stdout)
             error == IF error_json = None THEN None
                      ELSE and_then_as_str(value_get(error_json[1], "error"))
         IN  IF error # None
             THEN Ran(Err("Gmail API error: " \o error[1], ""), <<argv>>)
             ELSE Ran(Err("gmail-cli failed: " \o stderr, ""), <<argv>>)
    ELSE LET parsed == from_slice(out.stdout) IN
         IF parsed = None
         THEN Ran(Err("Failed to parse gmail-cli output",
                      from_slice_error(out.stdout)), <<argv>>)
         ELSE Ran(Ok(parsed[1]), <<argv>>)

(* The limit default written in inbox and search. *)
DefaultLimit == 10

inbox(self, params, out) ==
    LET limit == unwrap_or(and_then_as_u64(get(params, "limit")), DefaultLimit)
    IN  run_cli(self, <<"inbox", "--limit", to_string(limit)>>, out)

(* A variant of unread that tries once more after a failure. *)
unread_retry(self, out) ==
    LET first == run_cli(self, <<"unread">>, out) IN
    IF first.res.ok THEN first
    ELSE LET second == run_cli(self, <<"unread">>, out) IN
         Ran(second.res, first.spawned \o second.spawned)

unread(self, out) == run_cli(self, <<"unread">>, out)

(* A variant of search that lets an absent query default to the empty      *)
(* string.                                                                 *)
search_empty_query(self, params, out) ==
    LET query == unwrap_or(and_then_as_str(get(params, "query")), "")
        limit == unwrap_or(and_then_as_u64(get(params, "limit")), DefaultLimit)
    IN  run_cli(self, <<"search", query, "--limit", to_string(limit)>>, out)

(* A variant of search that never reads limit. *)
search_fixed_limit(self, params, out) ==
    LET query == and_then_as_str(get(params, "query")) IN
    IF query = None
    THEN Ran(Err("query parameter is required", ""), <<>>)
    ELSE run_cli(self, <<"search", query[1], "--limit",
                        to_string(DefaultLimit)>>, out)

search(self, params, out) ==
    LET query == and_then_as_str(get(params, "query")) IN
    IF query = None
    THEN Ran(Err("query parameter is required", ""), <<>>)
    ELSE LET limit == unwrap_or(and_then_as_u64(get(params, "limit")),
                                DefaultLimit)
         IN  run_cli(self, <<"search", query[1], "--limit", to_string(limit)>>,
                     out)

send(self, params, out) ==
    LET to == and_then_as_str(get(params, "to"))
        subject == and_then_as_str(get(params, "subject"))
        body == and_then_as_str(get(params, "body"))
    IN  IF to = None
        THEN Ran(Err("to parameter is required", ""), <<>>)
        ELSE IF subject = None
        THEN Ran(Err("subject parameter is required", ""), <<>>)
        ELSE IF body = None
        THEN Ran(Err("body parameter is required", ""), <<>>)
        ELSE run_cli(self, <<"send", to[1], subject[1], body[1]>>, out)

thread(self, params, out) ==
    LET thread_id == and_then_as_str(get(params, "thread_id")) IN
    IF thread_id = None
    THEN Ran(Err("thread_id parameter is required", ""), <<>>)
    ELSE run_cli(self, <<"thread", thread_id[1]>>, out)

(* A variant of dispatch whose default arm runs unread. *)
dispatch_default_unread(self, method, params, out) ==
    CASE method = "inbox" -> inbox(self, params, out)
      [] method = "search" -> search(self, params, out)
      [] method = "send" -> send(self, params, out)
      [] method = "thread" -> thread(self, params, out)
      [] OTHER -> unread(self, out)

(* FgpService::dispatch *)
dispatch(self, method, params, out) ==
    CASE method = "inbox" -> inbox(self, params, out)
      [] method = "unread" -> unread(self, out)
      [] method = "search" -> search(self, params, out)
      [] method = "send" -> send(self, params, out)
      [] method = "thread" -> thread(self, params, out)
      [] OTHER -> Ran(Err("Unknown method: " \o method, ""), <<>>)

(* FgpService::method_list *)
ParamInfo(name, param_type, required, default) ==
    [name |-> name, param_type |-> param_type, required |-> required,
     default |-> default]
MethodInfo(name, description, params) ==
    [name |-> name, description |-> description, params |-> params]

(* A variant of the table that lacks thread. *)
method_list_without_thread ==
    << MethodInfo("inbox", "List recent inbox emails",
           <<ParamInfo("limit", "integer", FALSE, Some(JInt(10)))>>),
       MethodInfo("unread", "Get unread email count and summaries", <<>>),
       MethodInfo("search", "Search emails by query",
           <<ParamInfo("query", "string", TRUE, None),
             ParamInfo("limit", "integer", FALSE, Some(JInt(10)))>>),
       MethodInfo("send", "Send an email",
           <<ParamInfo("to", "string", TRUE, None),
             ParamInfo("subject", "string", TRUE, None),
             ParamInfo("body", "string", TRUE, None)>>) >>

method_list ==
    << MethodInfo("inbox", "List recent inbox emails",
           <<ParamInfo("limit", "integer", FALSE, Some(JInt(10)))>>),
       MethodInfo("unread", "Get unread email count and summaries", <<>>),
       MethodInfo("search", "Search emails by query",
           <<ParamInfo("query", "string", TRUE, None),
             ParamInfo("limit", "integer", FALSE, Some(JInt(10)))>>),
       MethodInfo("send", "Send an email",
           <<ParamInfo("to", "string", TRUE, None),
             ParamInfo("subject", "string", TRUE, None),
             ParamInfo("body", "string", TRUE, None)>>),
       MethodInfo("thread", "Get email thread by ID",
           <<ParamInfo("thread_id", "string", TRUE, None)>>) >>

(* A variant of on_start that does not look at the probe's exit status. *)
on_start_unchecked(self, probe) ==
    IF ~probe.started THEN Err("Python3 not found", probe.io) ELSE Ok(JNull)

(* The python3 --version probe of on_start: Command::output() again. *)
on_start(self, probe) ==
    IF ~probe.started THEN Err("Python3 not found", probe.io)
    ELSE IF probe.code # 0 THEN Err("Python3 not available", "")
    ELSE Ok(JNull)

(* FgpService::health_check: one entry, gmail_cli. *)
health_check(self, files) ==
    IF self.cli_path \in files
    THEN [gmail_cli |-> [ok |-> TRUE, latency_ms |-> None,
                         message |-> Some("CLI at " \o self.cli_path)]]
    ELSE [gmail_cli |-> [ok |-> FALSE, latency_ms |-> None,
                         message |-> Some("gmail-cli.py not found")]]

----------------------------------------------------------------------------
(* Bounds. *)

\* connections the server handles at once
NumCalls == 2
\* dispatch calls in one run
MaxDispatch == 2

Conns == 1 .. NumCalls

----------------------------------------------------------------------------
(* Inputs. *)

Range(seq) == {seq[i] : i \in DOMAIN seq}

(* Method names a client may send: the five of the table, a wrong case, an *)
(* unlisted name, the empty name.                                          *)
MethodNames ==
    {"inbox", "unread", "search", "send", "thread", "Inbox", "delete", ""}

(* Parameter values: every variant of Value; strings, and integers of      *)
(* either sign.                                                            *)
ParamValues ==
    {JStr("invoices"), JInt(25), JInt(0), JInt(-1), JFloat("2.5"),
     JBool(TRUE), JNull, JArray, JObject(NoFields)}

(* Parameter maps: any values under any subset of one method's declared    *)
(* parameter names (sent to any method, so also under names the method     *)
(* called does not know).                                                  *)
KeySets ==
    UNION {SUBSET {q.name : q \in Range(m.params)} : m \in Range(method_list)}
ParamMaps == UNION {[K -> ParamValues] : K \in KeySets}

NoParams == [k \in {} |-> JNull]

----------------------------------------------------------------------------
(* One call of the service at a time: a request drawn from the inputs is  *)
(* dispatched and runs to completion.                                      *)

NoCall ==
    [op |-> "none", method |-> "", params |-> NoParams, out |-> None,
     res |-> Ok(JNull), spawned |-> <<>>]

Request(method, params) ==
    [op |-> "request", method |-> method, params |-> params, out |-> None,
     res |-> Ok(JNull), spawned |-> <<>>]

RunningService == [cli_path |-> ExeScript]

IdleCall ==
    [pc |-> "idle", method |-> "", params |-> NoParams, pid |-> 0,
     out |-> None, res |-> None, spawned |-> <<>>]

DispatchInit ==
    /\ phase = "serving"
    /\ fs = {ExeScript}
    /\ service = RunningService
    /\ calls = [c \in Conns |-> IdleCall]
    /\ procs = {}
    /\ dispatches = 0
    /\ spawns = 0
    /\ startup = [script |-> Some(TRUE), python |-> Some(Exited(0, "", ""))]
    /\ \E method \in MethodNames, params \in ParamMaps :
          last = Request(method, params)
    /\ listed = None

(* The dispatch call for the pending request, from entry to return.  The   *)
(* process's Output exists only when the call spawns one.                  *)
Dispatch ==
    /\ last.op = "request"
    /\ LET dry == dispatch(service, last.method, last.params, NotStarted) IN
       \E out \in IF dry.spawned = <<>> THEN {NotStarted} ELSE Outputs :
          LET ran == dispatch(service, last.method, last.params, out) IN
          /\ last' = [last EXCEPT !.op = "dispatch",
                        !.out = IF ran.spawned = <<>> THEN None ELSE Some(out),
                        !.res = ran.res, !.spawned = ran.spawned]
          /\ spawns' = spawns + Len(ran.spawned)
    /\ dispatches' = dispatches + 1
    /\ UNCHANGED <<phase, fs, service, calls, procs, startup, listed>>

MethodList ==
    /\ listed' = Some(method_list)
    /\ UNCHANGED <<phase, fs, service, calls, procs, dispatches, spawns,
                   startup, last>>

DispatchNext ==
    \/ Dispatch
    \/ MethodList

DispatchSpec == DispatchInit /\ [][DispatchNext]_vars

----------------------------------------------------------------------------
(* The daemon: main constructs the service, the server runs on_start and   *)
(* then serves connections concurrently; every request is one dispatch     *)
(* call, which blocks in Command::output() while its process runs.         *)

(* File systems the daemon may be started on. *)
InitialFiles == {{}, {ExeScript}, {HomeScript, CargoScript}}

(* Requests the clients send. *)
Req(method, params) == [method |-> method, params |-> params]
Requests ==
    {Req("inbox", NoParams),
     Req("inbox", "limit" :> JInt(25)),
     Req("unread", NoParams),
     Req("search", "query" :> JStr("invoices")),
     Req("send", ("to" :> JStr("a@example.com")) @@ ("subject" :> JStr("hi"))
                   @@ ("body" :> JStr("hello"))),
     Req("thread", "thread_id" :> JStr("t1")),
     Req("search", NoParams),
     Req("thread", "thread_id" :> JInt(25)),
     Req("delete", NoParams)}

(* How a spawned helper may end. *)
HelperExits ==
    {Exited(0, OkText, "token expired"), Exited(1, BoomText, "token expired"),
     Exited(1, JunkText, "token expired"), Exited(0, JunkText, "token expired")}

(* How the python3 --version probe may end. *)
Probes ==
    {NotStarted, Exited(0, "Python 3.11.4", ""), Exited(1, "", "token expired")}

Init ==
    /\ phase = "boot"
    /\ fs \in InitialFiles
    /\ service = NoService
    /\ calls = [c \in Conns |-> IdleCall]
    /\ procs = {}
    /\ dispatches = 0
    /\ spawns = 0
    /\ startup = [script |-> None, python |-> None]
    /\ last = NoCall
    /\ listed = None

(* main, up to the construction of the service: GmailService::new()?. *)
main ==
    /\ phase = "boot"
    /\ LET made == new(fs) IN
       /\ service' = made.svc
       /\ startup' = [startup EXCEPT !.script = Some(made.ok)]
       /\ phase' = IF made.ok THEN "constructed" ELSE "failed"
    /\ UNCHANGED <<fs, calls, procs, dispatches, spawns, last, listed>>

(* FgpServer::new(service, socket)?.serve()?: the server calls on_start    *)
(* once before it accepts requests, and fails startup when on_start fails. *)
serve ==
    /\ phase = "constructed"
    /\ \E probe \in Probes :
          /\ startup' = [startup EXCEPT !.python = Some(probe)]
          /\ phase' = IF on_start(service, probe).ok THEN "serving"
                      ELSE "failed"
    /\ UNCHANGED <<fs, service, calls, procs, dispatches, spawns, last,
                   listed>>

(* A variant in which every call uses one shared child. *)
SharedPid(spawned_so_far) == 1

(* The process id Command::output() gives the child it spawns: a new       *)
(* process every time.                                                     *)
NextPid(spawned_so_far) == spawned_so_far + 1

Completed(method, params, out, ran) ==
    [op |-> "dispatch", method |-> method, params |-> params, out |-> out,
     res |-> ran.res, spawned |-> ran.spawned]

(* The server calls dispatch for a request on connection c.  The call      *)
(* returns at once when validation fails or the process cannot be          *)
(* started; otherwise it has spawned its process and waits for it.         *)
Receive(c) ==
    /\ phase = "serving"
    /\ calls[c].pc = "idle"
    /\ dispatches < MaxDispatch
    /\ dispatches' = dispatches + 1
    /\ \E req \in Requests :
          LET dry == dispatch(service, req.method, req.params, NotStarted) IN
          IF dry.spawned = <<>>
          THEN /\ last' = Completed(req.method, req.params, None, dry)
               /\ UNCHANGED <<calls, procs, spawns>>
          ELSE /\ spawns' = spawns + Len(dry.spawned)
               /\ \/ /\ last' = Completed(req.method, req.params,
                                           Some(NotStarted), dry)
                     /\ UNCHANGED <<calls, procs>>
                  \/ /\ calls' = [calls EXCEPT ![c] =
                            [pc |-> "waiting", method |-> req.method,
                             params |-> req.params, pid |-> NextPid(spawns),
                             out |-> None, res |-> None,
                             spawned |-> dry.spawned]]
                     /\ procs' = procs \cup
                            {[pid |-> NextPid(spawns), owner |-> c,
                              argv |-> dry.spawned[1]]}
                     /\ UNCHANGED last
    /\ UNCHANGED <<phase, fs, service, startup, listed>>

(* The process of connection c's call exits; output() returns, run_cli     *)
(* reads the Output and the call returns.  The child is reaped.            *)
ProcExit(c) ==
    /\ calls[c].pc = "waiting"
    /\ \E out \in HelperExits :
          last' = Completed(calls[c].method, calls[c].params, Some(out),
                            dispatch(service, calls[c].method, calls[c].params,
                                     out))
    /\ calls' = [calls EXCEPT ![c] = IdleCall]
    /\ procs' = {p \in procs : p.pid # calls[c].pid}
    /\ UNCHANGED <<phase, fs, service, dispatches, spawns, startup, listed>>

(* The server asks for the health status. *)
HealthCheck ==
    /\ phase = "serving"
    /\ last' = [NoCall EXCEPT !.op = "health_check",
                             !.res = health_check(service, fs)]
    /\ UNCHANGED <<phase, fs, service, calls, procs, dispatches, spawns,
                   startup, listed>>

(* Somebody deletes the helper script while the daemon runs. *)
ScriptRemoved ==
    /\ phase = "serving"
    /\ service.cli_path \in fs
    /\ fs' = fs \ {service.cli_path}
    /\ UNCHANGED <<phase, service, calls, procs, dispatches, spawns, startup,
                   last, listed>>

Next ==
    \/ main
    \/ serve
    \/ \E c \in Conns : Receive(c)
    \/ \E c \in Conns : ProcExit(c)
    \/ HealthCheck
    \/ ScriptRemoved

Spec == Init /\ [][Next]_vars

----------------------------------------------------------------------------
(* Vocabulary of the properties.                                           *)

(* The names dispatch matches on. *)
KnownMethods == {"inbox", "unread", "search", "send", "thread"}

(* The parameters method_list declares required, in declared order. *)
MethodInfoOf(method) ==
    CHOOSE m \in Range(method_list) : m.name = method
Listed(method) == \E m \in Range(method_list) : m.name = method
RequiredOf(method) ==
    IF Listed(method)
    THEN SelectSeq(MethodInfoOf(method).params, LAMBDA q : q.required)
    ELSE <<>>
RequiredNames(method) == {q.name : q \in Range(RequiredOf(method))}

Omitted(params, key) == key \notin DOMAIN params
NotAString(params, key) == key \in DOMAIN params /\ params[key].t # "string"
Unusable(params, key) == Omitted(params, key) \/ NotAString(params, key)

(* The first required parameter, in declared order, that is unusable. *)
FirstUnusable(method, params) ==
    LET req == RequiredOf(method)
        bad == {i \in DOMAIN req : Unusable(params, req[i].name)}
    IN  req[CHOOSE i \in bad : \A j \in bad : i <= j].name

RequiredMessage(key) == key \o " parameter is required"

(* The origin tag of an error, read off its message. *)
ErrorKind(res) ==
    IF res.ok THEN "none"
    ELSE IF \E m \in MethodNames : res.msg = "Unknown method: " \o m
    THEN "unknown_method"
    ELSE IF \E k \in UNION KeySets : res.msg = RequiredMessage(k)
    THEN "missing_required_param"
    ELSE IF res.msg = "Failed to run gmail-cli.py"
    THEN "backend_process_failed"
    ELSE IF res.msg = "Failed to parse gmail-cli output"
    THEN "backend_output_unparseable"
    ELSE IF \/ \E e \in {"boom"} : res.msg = "Gmail API error: " \o e
            \/ \E e \in {"token expired", "caf<U+FFFD>"} :
                  res.msg = "gmail-cli failed: " \o e
    THEN "backend_nonzero_exit"
    ELSE "other"

BackendKinds ==
    {"backend_process_failed", "backend_nonzero_exit",
     "backend_output_unparseable"}

Dispatched == last.op = "dispatch"

----------------------------------------------------------------------------
(* C1: a dispatch call for a method name outside the method table fails    *)
(* with the unknown-method error, whatever the params, and spawns no       *)
(* process.                                                                *)
C1_UnknownMethodFailsFast ==
    (Dispatched /\ last.method \notin KnownMethods) =>
        /\ ~last.res.ok
        /\ ErrorKind(last.res) = "unknown_method"
        /\ last.res.msg = "Unknown method: " \o last.method
        /\ last.spawned = <<>>
        /\ last.out = None
        /\ spawns = 0

C1_Witness ==
    /\ Dispatched
    /\ last.method = "Inbox"
    /\ "limit" \in DOMAIN last.params
    /\ ErrorKind(last.res) = "unknown_method"

----------------------------------------------------------------------------
(* C2 as stated: a call to a known method whose params omit a required    *)
(* parameter fails with the missing-parameter error naming an omitted      *)
(* parameter, and spawns no process.                                       *)
C2_NamesTheOmitted ==
    (Dispatched /\ last.method \in KnownMethods
        /\ \E key \in RequiredNames(last.method) : Omitted(last.params, key))
    =>
        /\ \E key \in RequiredNames(last.method) :
              /\ Omitted(last.params, key)
              /\ last.res = Err(RequiredMessage(key), "")
        /\ last.spawned = <<>>

(* C2 amended: a call to a known method whose params omit a required       *)
(* parameter fails with the missing-parameter error and spawns no process; *)
(* the error names the first required parameter, in declared order, that   *)
(* is absent or not a string, hence the omitted one whenever every         *)
(* required parameter declared before it is supplied as a string.          *)
C2_OmittedRequiredFails ==
    (Dispatched /\ last.method \in KnownMethods
        /\ \E key \in RequiredNames(last.method) : Omitted(last.params, key))
    =>
        /\ ~last.res.ok
        /\ ErrorKind(last.res) = "missing_required_param"
        /\ last.res.msg = RequiredMessage(FirstUnusable(last.method, last.params))
        /\ last.spawned = <<>>
        /\ last.out = None
        /\ spawns = 0
        /\ LET req == RequiredOf(last.method) IN
           \A i \in DOMAIN req :
              (/\ Omitted(last.params, req[i].name)
               /\ \A j \in 1 .. (i - 1) : ~Unusable(last.params, req[j].name))
              => last.res.msg = RequiredMessage(req[i].name)

C2_Witness ==
    /\ Dispatched
    /\ last.method = "send"
    /\ DOMAIN last.params = {"to", "body"}
    /\ last.params["to"].t = "string"
    /\ last.res.msg = "subject parameter is required"

----------------------------------------------------------------------------
(* What the call's one process returned, when it spawned one. *)
Spawned == Dispatched /\ last.out # None
TheOutput == last.out[1]

HasErrorMember(text) == text \in {BoomText, CodeText}
ErrorMemberText(text) == IF text = BoomText THEN "boom" ELSE "403"
Parses(text) == text \in {OkText, BoomText, CodeText, ListText}

(* C3 as stated: spawn failure gives backend_process_failed; a non-zero    *)
(* exit gives backend_nonzero_exit whose message is the error member of    *)
(* standard output when it parses with one, else the standard error text;  *)
(* exit zero with unparseable output gives backend_output_unparseable;     *)
(* exit zero with parseable output gives the parsed value.  (The message   *)
(* is allowed the fixed prefix the service puts before the text.)          *)
C3_MessageIsErrorField ==
    Spawned =>
        LET o == TheOutput IN
        /\ ~o.started => ErrorKind(last.res) = "backend_process_failed"
        /\ (o.started /\ o.code # 0) =>
              /\ ~last.res.ok
              /\ IF HasErrorMember(o.stdout)
                 THEN last.res.msg \in
                        {ErrorMemberText(o.stdout),
                         "Gmail API error: " \o ErrorMemberText(o.stdout)}
                 ELSE last.res.msg \in
                        {from_utf8_lossy(o.stderr),
                         "gmail-cli failed: " \o from_utf8_lossy(o.stderr)}
        /\ (o.started /\ o.code = 0 /\ ~Parses(o.stdout)) =>
              ErrorKind(last.res) = "backend_output_unparseable"
        /\ (o.started /\ o.code = 0 /\ Parses(o.stdout)) =>
              last.res = Ok(from_slice(o.stdout)[1])

(* C3 amended: as stated, except that on a non-zero exit the message is    *)
(* "Gmail API error: " followed by the error member when standard output   *)
(* parses as an object whose error member is a string, and otherwise       *)
(* "gmail-cli failed: " followed by standard error decoded lossily as      *)
(* UTF-8.  A non-zero exit never yields success.                           *)
C3_RunCliOutcome ==
    Spawned =>
        LET o == TheOutput IN
        /\ ~o.started =>
              /\ ErrorKind(last.res) = "backend_process_failed"
              /\ last.res = Err("Failed to run gmail-cli.py", o.io)
        /\ (o.started /\ o.code # 0) =>
              /\ ~last.res.ok
              /\ ErrorKind(last.res) = "backend_nonzero_exit"
              /\ last.res.msg =
                    IF o.stdout = BoomText
                    THEN "Gmail API error: boom"
                    ELSE "gmail-cli failed: " \o
                         (IF o.stderr = BadUtf8 THEN "caf<U+FFFD>" ELSE o.stderr)
        /\ (o.started /\ o.code = 0 /\ ~Parses(o.stdout)) =>
              /\ ~last.res.ok
              /\ ErrorKind(last.res) = "backend_output_unparseable"
        /\ (o.started /\ o.code = 0 /\ Parses(o.stdout)) =>
              last.res = Ok(from_slice(o.stdout)[1])
        /\ last.res.ok => (o.started /\ o.code = 0)

C3_Witness ==
    /\ Spawned
    /\ TheOutput.started
    /\ TheOutput.code = 1
    /\ TheOutput.stdout = BoomText
    /\ last.res.msg = "Gmail API error: boom"

----------------------------------------------------------------------------
(* C4: every method_list call returns the same table, and the names it     *)
(* lists are exactly the names dispatch does not reject as unknown.        *)
C4_MethodListMirrorsDispatch ==
    /\ listed \in {None, Some(method_list)}
    /\ (listed # None /\ Dispatched) =>
          (last.method \in {m.name : m \in Range(listed[1])}
              <=> ErrorKind(last.res) # "unknown_method")

C4_Witness ==
    /\ listed # None
    /\ Len(listed[1]) = 5
    /\ Dispatched
    /\ last.method = "thread"
    /\ ErrorKind(last.res) = "missing_required_param"

----------------------------------------------------------------------------
(* The text of a supplied value. *)
Shown(v) ==
    CASE v = JInt(25) -> "25"
      [] v = JInt(0) -> "0"
      [] v = JInt(-1) -> "-1"
      [] v.t \in {"float", "string"} -> v.s
      [] v.t = "bool" -> "true"
      [] v.t = "null" -> "null"
      [] v.t = "array" -> "[]"
      [] v.t = "object" -> "{}"

IsCount(v) == v \in {JInt(25), JInt(0)}

TakesLimit == Dispatched /\ last.method \in {"inbox", "search"}
             /\ last.spawned # <<>>
TheArgv == last.spawned[1]
ForwardedLimit == TheArgv[Len(TheArgv)]

(* C5 as stated: the forwarded limit is 10 when limit is omitted and the   *)
(* supplied value when one is supplied (read: supplied as an integer, the  *)
(* declared type).                                                         *)
C5_SuppliedLimitForwarded ==
    TakesLimit =>
        /\ Omitted(last.params, "limit") => ForwardedLimit = "10"
        /\ (~Omitted(last.params, "limit") /\ last.params["limit"].t = "int")
              => ForwardedLimit = Shown(last.params["limit"])

(* C5 amended: the forwarded limit is 10 when limit is omitted, the        *)
(* supplied value when it is a non-negative integer, and 10 for any other  *)
(* supplied value; search forwards query unchanged, so                     *)
(* dispatch("search", {"query":"invoices"}) runs search invoices           *)
(* --limit 10.                                                             *)
C5_LimitDefaulting ==
    /\ (Dispatched /\ last.method = "inbox") => last.spawned # <<>>
    /\ TakesLimit =>
          /\ Len(last.spawned) = 1
          /\ TheArgv[Len(TheArgv) - 1] = "--limit"
          /\ Omitted(last.params, "limit") => ForwardedLimit = "10"
          /\ (~Omitted(last.params, "limit") /\ IsCount(last.params["limit"]))
                => ForwardedLimit = Shown(last.params["limit"])
          /\ (~Omitted(last.params, "limit") /\ ~IsCount(last.params["limit"]))
                => ForwardedLimit = "10"
          /\ last.method = "inbox" =>
                TheArgv = <<"python3", service.cli_path, "inbox", "--limit",
                            ForwardedLimit>>
          /\ last.method = "search" =>
                TheArgv = <<"python3", service.cli_path, "search",
                            last.params["query"].s, "--limit", ForwardedLimit>>
    /\ (Dispatched /\ last.method = "search"
           /\ last.params = ("query" :> JStr("invoices"))) =>
          last.spawned = << <<"python3", service.cli_path, "search", "invoices",
                              "--limit", "10">> >>

C5_Witness ==
    /\ TakesLimit
    /\ last.method = "search"
    /\ last.params = (("query" :> JStr("invoices")) @@ ("limit" :> JInt(25)))
    /\ ForwardedLimit = "25"

----------------------------------------------------------------------------
(* The params with every required parameter that is not a string removed. *)
Stripped(method, params) ==
    LET keep == {k \in DOMAIN params :
                    ~(k \in RequiredNames(method) /\ NotAString(params, k))}
    IN  [k \in keep |-> params[k]]

SendOrder == <<"to", "subject", "body">>

(* C10: a required parameter that is present but not a string is treated   *)
(* like an absent one: the call fails with the same "parameter is          *)
(* required" error as without it and spawns no process; for send the       *)
(* error names the first unusable of to, subject, body.                    *)
C10_NonStringIsAbsent ==
    (Dispatched /\ last.method \in KnownMethods
        /\ \E key \in RequiredNames(last.method) :
              NotAString(last.params, key))
    =>
        /\ ~last.res.ok
        /\ ErrorKind(last.res) = "missing_required_param"
        /\ last.spawned = <<>>
        /\ last.out = None
        /\ last.res = dispatch(service, last.method,
                               Stripped(last.method, last.params),
                               NotStarted).res
        /\ last.res.msg =
              RequiredMessage(FirstUnusable(last.method, last.params))
        /\ last.method = "send" =>
              \E i \in DOMAIN SendOrder :
                 /\ Unusable(last.params, SendOrder[i])
                 /\ \A j \in 1 .. (i - 1) : ~Unusable(last.params, SendOrder[j])
                 /\ last.res.msg = RequiredMessage(SendOrder[i])

C10_Witness ==
    /\ Dispatched
    /\ last.method = "send"
    /\ DOMAIN last.params = {"to", "subject"}
    /\ last.params["to"].t = "string"
    /\ last.params["subject"].t = "int"
    /\ last.res.msg = "subject parameter is required"

----------------------------------------------------------------------------
(* A request with every required parameter present and of the declared     *)
(* type.                                                                   *)
TypeTag(param_type) == IF param_type = "integer" THEN "int" ELSE param_type
WellFormed(method, params) ==
    /\ Listed(method)
    /\ \A q \in Range(RequiredOf(method)) :
          /\ q.name \in DOMAIN params
          /\ params[q.name].t = TypeTag(q.param_type)

(* C6: a call to a known method with its required parameters present and   *)
(* of the declared type spawns exactly one process and returns that        *)
(* process's success value or backend error, never unknown_method or       *)
(* missing_required_param; process spawns never outnumber dispatch calls.  *)
C6_OneSpawnPerValidCall ==
    /\ spawns <= dispatches
    /\ \A c \in Conns :
          calls[c].pc = "waiting" =>
              /\ WellFormed(calls[c].method, calls[c].params)
              /\ Len(calls[c].spawned) = 1
    /\ (Dispatched /\ WellFormed(last.method, last.params)) =>
          /\ Len(last.spawned) = 1
          /\ last.out # None
          /\ last.res.ok \/ ErrorKind(last.res) \in BackendKinds
          /\ last.res.ok =>
                /\ TheOutput.started
                /\ TheOutput.code = 0
                /\ last.res.val = from_slice(TheOutput.stdout)[1]
          /\ ~last.res.ok =>
                \/ ~TheOutput.started
                \/ TheOutput.code # 0
                \/ ~Parses(TheOutput.stdout)

C6_Witness ==
    /\ dispatches = MaxDispatch
    /\ spawns = MaxDispatch
    /\ Dispatched
    /\ last.method = "send"
    /\ WellFormed(last.method, last.params)
    /\ ErrorKind(last.res) = "backend_nonzero_exit"

----------------------------------------------------------------------------
(* The state part of C8: concurrent calls are independent.  Every running process belongs    *)
(* process belongs to exactly one waiting call and every waiting call has  *)
(* exactly one process of its own; a connection that is free can start a   *)
(* call, and a waiting call can finish, whatever the other calls are doing *)
(* (no lock); a finished call's outcome is determined by its own method,   *)
(* params and process output.                                              *)
C8_OwnProcess ==
    /\ \A p, q \in procs : (p.pid = q.pid \/ p.owner = q.owner) => p = q
    /\ \A p \in procs :
          /\ calls[p.owner].pc = "waiting"
          /\ calls[p.owner].pid = p.pid
          /\ <<p.argv>> = calls[p.owner].spawned
    /\ \A c \in Conns :
          calls[c].pc = "waiting" => \E p \in procs : p.owner = c
    /\ \A c \in Conns :
          /\ (phase = "serving" /\ calls[c].pc = "idle"
                 /\ dispatches < MaxDispatch) => ENABLED Receive(c)
          /\ calls[c].pc = "waiting" => ENABLED ProcExit(c)
    /\ (Dispatched /\ last.out # None) =>
          last.res = dispatch(service, last.method, last.params,
                              TheOutput).res
    /\ (Dispatched /\ last.out = None) =>
          last.res = dispatch(service, last.method, last.params,
                              NotStarted).res

C8_ServiceUnchanged == phase = "serving" => service' = service

(* C8: in every state each process has one owner, no call is held back by  *)
(* another, each outcome is its own call's; and no step taken while        *)
(* serving (a dispatch, a process exit, a health_check) changes the        *)
(* service's cli_path.                                                     *)
C8_ColdCallsIndependent == [](C8_OwnProcess) /\ [][C8_ServiceUnchanged]_vars

C8_Witness ==
    /\ Cardinality(procs) = 2
    /\ \A c \in {1, 2} : calls[c].pc = "waiting"
    /\ calls[1].pid # calls[2].pid
    /\ calls[1].method # calls[2].method

----------------------------------------------------------------------------
ProbeFailed(probe) == ~probe.started \/ probe.code # 0

(* C9: startup is fail-fast.  When the script is not found at              *)
(* construction, or the python3 probe of on_start cannot be started or     *)
(* exits non-zero, the daemon has failed and serves nothing; requests are  *)
(* dispatched only after both checks succeeded.                            *)
C9_FailFastStartup ==
    /\ (\/ startup.script = Some(FALSE)
        \/ startup.python # None /\ ProbeFailed(startup.python[1]))
          => phase = "failed"
    /\ phase = "serving" =>
          /\ startup.script = Some(TRUE)
          /\ startup.python # None
          /\ ~ProbeFailed(startup.python[1])
    /\ phase # "serving" =>
          /\ dispatches = 0
          /\ spawns = 0
          /\ procs = {}
          /\ last = NoCall
          /\ \A c \in Conns : calls[c].pc = "idle"

C9_Witness ==
    /\ phase = "failed"
    /\ startup.script = Some(TRUE)
    /\ startup.python = Some(Exited(1, "", "token expired"))

====
